---- MODULE Spec2Model ----
(***************************************************************************)
(* Model of the jiracopy markdown worker (workers/markdown-worker.js) and   *)
(* of the application's side of the worker protocol (js/worker-comm.js,    *)
(* js/app.js, js/ui-controller.js).                                        *)
(* Utils.debounce and Utils.retry (js/utils.js) and the listener tracking  *)
(* of DOMManager (js/dom-manager.js) are modelled on their own at the end. *)
(*                                                                         *)
(* A JavaScript string is a sequence of characters.  Every character is a  *)
(* record [c, o]: c is the character itself, the only field the code's     *)
(* regular expressions can see, and o is a ghost field recording where the *)
(* character comes from:                                                   *)
(*   "in"   typed by the user (a character of the markdown input)          *)
(*   "esc"  written by escapeHtml for a character typed by the user        *)
(*   "esc2" written by escapeHtml for a character that was itself written  *)
(*          by escapeHtml or by a conversion stage                         *)
(*   "tag"  written by a conversion stage (the text of an emitted tag)     *)
(***************************************************************************)
EXTENDS Integers, Sequences, FiniteSets, TLC

VARIABLES
  inbox,     \* messages posted to the worker and not yet delivered to it
  received,  \* history: the messages self.onmessage has been called with
  outbox,    \* the messages the worker has posted, in order
  app        \* the application on the main thread: its WorkerComm and its
             \* UIController, or Detached when the worker is driven alone

vars == <<inbox, received, outbox, app>>

(***************************************************************************)
(* Characters and character classes of the regular expressions.            *)
(***************************************************************************)
NL == "\n"

\* the backtick character (a string of the model cannot hold one)
BQ == "backtick"

Lower == {"a","b","c","d","e","f","g","h","i","j","k","l","m",
          "n","o","p","q","r","s","t","u","v","w","x","y","z"}

Upper == {"A","B","C","D","E","F","G","H","I","J","K","L","M",
          "N","O","P","Q","R","S","T","U","V","W","X","Y","Z"}

Digit == {"0","1","2","3","4","5","6","7","8","9"}

\* \s restricted to the white space the model's inputs contain
Space == {" ", NL}

\* \w
Word == Lower \cup Upper \cup Digit \cup {"_"}

\* [a-zA-Z0-9._%+-]
EmailLocal == Lower \cup Upper \cup Digit \cup {".", "_", "%", "+", "-"}

\* [a-zA-Z0-9.-]
EmailDomain == Lower \cup Upper \cup Digit \cup {".", "-"}

\* the characters of a sequence, as the regular expressions see them
Text(s) == [i \in 1..Len(s) |-> s[i].c]

\* a literal of the code's replacement strings
Lit(t) == [i \in 1..Len(t) |-> [c |-> t[i], o |-> "tag"]]

\* text typed by the user
Typed(t) == [i \in 1..Len(t) |-> [c |-> t[i], o |-> "in"]]

\* s has the characters t at position i
At(s, i, t) ==
  /\ i >= 1
  /\ i + Len(t) - 1 <= Len(s)
  /\ \A k \in 1..Len(t) : s[i + k - 1].c = t[k]

\* ^ with the m flag
LineStart(s, i) == i = 1 \/ (i > 1 /\ i - 1 <= Len(s) /\ s[i - 1].c = NL)

\* first position >= i whose character is in cs, or Len(s) + 1
Find(s, i, cs) ==
  IF \E j \in i..Len(s) : s[j].c \in cs
  THEN CHOOSE j \in i..Len(s) :
         s[j].c \in cs /\ \A k \in i..(j - 1) : s[k].c \notin cs
  ELSE Len(s) + 1

\* first position >= i whose character is not in cs, or Len(s) + 1
Skip(s, i, cs) ==
  IF \E j \in i..Len(s) : s[j].c \notin cs
  THEN CHOOSE j \in i..Len(s) :
         s[j].c \notin cs /\ \A k \in i..(j - 1) : s[k].c \in cs
  ELSE Len(s) + 1

\* first position >= i where t stands, or 0
FindStr(s, i, t) ==
  IF \E j \in i..Len(s) : At(s, j, t)
  THEN CHOOSE j \in i..Len(s) :
         At(s, j, t) /\ \A k \in i..(j - 1) : ~At(s, k, t)
  ELSE 0

\* first position >= i where t stands with no line break before it, or 0
FindOnLine(s, i, t) ==
  LET n == FindStr(s, i, t)
  IN IF n # 0 /\ \A k \in i..(n - 1) : s[k].c # NL THEN n ELSE 0

\* s[i..j], empty when j < i
Sub(s, i, j) == IF j < i THEN <<>> ELSE SubSeq(s, i, j)

NoMatch == [end |-> 0, out |-> <<>>]

(***************************************************************************)
(* escapeHtml (markdown-worker.js:236-248)                                 *)
(***************************************************************************)
Entity(t, from) ==
  [i \in 1..Len(t) |-> [c |-> t[i], o |-> IF from = "in" THEN "esc" ELSE "esc2"]]

\* escapeHtml without its replacement of <
escapeChar_KeepsLt(ch) ==
  CASE ch.c = "&"  -> Entity(<<"&","a","m","p",";">>, ch.o)
    [] ch.c = ">"  -> Entity(<<"&","g","t",";">>, ch.o)
    [] ch.c = "\"" -> Entity(<<"&","q","u","o","t",";">>, ch.o)
    [] ch.c = "'"  -> Entity(<<"&","#","3","9",";">>, ch.o)
    [] OTHER       -> <<ch>>

escapeChar(ch) ==
  CASE ch.c = "&"  -> Entity(<<"&","a","m","p",";">>, ch.o)
    [] ch.c = "<"  -> Entity(<<"&","l","t",";">>, ch.o)
    [] ch.c = ">"  -> Entity(<<"&","g","t",";">>, ch.o)
    [] ch.c = "\"" -> Entity(<<"&","q","u","o","t",";">>, ch.o)
    [] ch.c = "'"  -> Entity(<<"&","#","3","9",";">>, ch.o)
    [] OTHER       -> <<ch>>

\* the replacements of text[lo..hi], character by character
RECURSIVE escapeFrom(_, _, _)
escapeFrom(text, lo, hi) ==
  IF lo > hi THEN <<>>
  ELSE IF lo = hi THEN escapeChar(text[lo])
  ELSE LET mid == (lo + hi) \div 2
       IN escapeFrom(text, lo, mid) \o escapeFrom(text, mid + 1, hi)

escapeHtml(text) == escapeFrom(text, 1, Len(text))

(***************************************************************************)
(* The stages of convertMarkdownToHtml, one matcher per regular            *)
(* expression.  A matcher is given the string and a position and returns   *)
(* NoMatch, or the last position of the match and its replacement.         *)
(***************************************************************************)

\* /^#{k}\s+(.+)$/gm and /^>\s+(.+)$/gm and the tail of the list patterns:
\* after the marker, \s+ takes the longest run of white space (line breaks
\* included) that still leaves one character of the same line for (.+),
\* and (.+) runs to the end of that line.  p is the position after the
\* marker; the result is the position where (.+) starts, or 0.
RECURSIVE TextStart(_, _, _)
TextStart(s, p, q) ==
  \* q runs from the end of the white space run back to p + 1
  IF q <= p THEN 0
  ELSE IF q <= Len(s) /\ s[q].c # NL THEN q
  ELSE TextStart(s, p, q - 1)

MarkedLine(s, p, open, close) ==
  LET w == Skip(s, p, Space)
      t == TextStart(s, p, w)
      e == Find(s, t, {NL}) - 1
  IN IF p > Len(s) \/ s[p].c \notin Space \/ t = 0 THEN NoMatch
     ELSE [end |-> e, out |-> Lit(open) \o Sub(s, t, e) \o Lit(close)]

Hashes(k) == [i \in 1..k |-> "#"]

HeaderTag(k) ==
  CASE k = 1 -> "1" [] k = 2 -> "2" [] k = 3 -> "3"
    [] k = 4 -> "4" [] k = 5 -> "5" [] k = 6 -> "6"

\* markdown-worker.js:66-71
headerAt(k, s, i) ==
  IF LineStart(s, i) /\ At(s, i, Hashes(k))
  THEN MarkedLine(s, i + k, <<"<","h",HeaderTag(k),">">>,
                            <<"<","/","h",HeaderTag(k),">">>)
  ELSE NoMatch

\* /DD(.*?)DD/g for a delimiter DD: markdown-worker.js:74-82
spanAt(s, i, delim, open, close) ==
  LET n == Len(delim)
      j == FindOnLine(s, i + n, delim)
  IN IF At(s, i, delim) /\ j # 0
     THEN [end |-> j + n - 1, out |-> Lit(open) \o Sub(s, i + n, j - 1) \o Lit(close)]
     ELSE NoMatch

STRONG   == <<"<","s","t","r","o","n","g",">">>
STRONG_E == <<"<","/","s","t","r","o","n","g",">">>
EM       == <<"<","e","m",">">>
EM_E     == <<"<","/","e","m",">">>
DEL      == <<"<","d","e","l",">">>
DEL_E    == <<"<","/","d","e","l",">">>
CODE     == <<"<","c","o","d","e",">">>
CODE_E   == <<"<","/","c","o","d","e",">">>

\* the inline code pattern of markdown-worker.js:85: a backtick, one or
\* more characters other than a backtick, a backtick
inlineCodeAt(s, i) ==
  LET j == Find(s, i + 1, {BQ})
  IN IF At(s, i, <<BQ>>) /\ j <= Len(s) /\ j > i + 1
     THEN [end |-> j, out |-> Lit(CODE) \o Sub(s, i + 1, j - 1) \o Lit(CODE_E)]
     ELSE NoMatch

A_HREF  == <<"<","a"," ","h","r","e","f","=","\"">>
A_CLOSE == <<"\"",">">>
A_E     == <<"<","/","a",">">>
MAILTO  == <<"m","a","i","l","t","o",":">>

\* /\[([^\]]+)\]\(([^)]+)\)/g: markdown-worker.js:88
linkAt(s, i) ==
  LET j == Find(s, i + 1, {"]"})
      k == Find(s, j + 2, {")"})
  IN IF /\ At(s, i, <<"[">>)
        /\ j > i + 1
        /\ At(s, j, <<"]","(">>)
        /\ k <= Len(s)
        /\ k > j + 2
     THEN [end |-> k,
           out |-> Lit(A_HREF) \o Sub(s, j + 2, k - 1) \o Lit(A_CLOSE)
                   \o Sub(s, i + 1, j - 1) \o Lit(A_E)]
     ELSE NoMatch

\* URL character run of the auto-link pattern: [^\s<>]
UrlStop == Space \cup {"<", ">"}

\* (?![">]) with backtracking: the last position e of the run r..e, as far
\* right as possible, whose following character is neither " nor >; 0 if none
RECURSIVE UrlEnd(_, _, _)
UrlEnd(s, r, e) ==
  IF e < r THEN 0
  ELSE IF e + 1 > Len(s) \/ s[e + 1].c \notin {"\"", ">"} THEN e
  ELSE UrlEnd(s, r, e - 1)

\* /(?<!\")https?:\/\/[^\s<>]+(?![\">])/g: markdown-worker.js:91
urlAt(s, i) ==
  LET q == IF At(s, i + 4, <<"s">>) THEN i + 5 ELSE i + 4
      r == q + 3
      e == UrlEnd(s, r, Find(s, r, UrlStop) - 1)
      m == Sub(s, i, e)
  IN IF /\ (i = 1 \/ s[i - 1].c # "\"")
        /\ At(s, i, <<"h","t","t","p">>)
        /\ At(s, q, <<":","/","/">>)
        /\ e # 0
     THEN [end |-> e,
           out |-> Lit(A_HREF) \o m \o Lit(A_CLOSE) \o m \o Lit(A_E)]
     ELSE NoMatch

IsWordAt(s, i) == i >= 1 /\ i <= Len(s) /\ s[i].c \in Word

\* \b between positions i - 1 and i
WordBoundary(s, i) == IsWordAt(s, i - 1) # IsWordAt(s, i)

\* \.[a-zA-Z]{2,}\b with backtracking over the domain run d..e: the dot,
\* as far right as possible, that is followed by two or more letters and
\* then a word boundary; the result is the last letter's position, or 0
RECURSIVE TldEnd(_, _, _)
TldEnd(s, d, p) ==
  IF p <= d THEN 0
  ELSE LET l == Skip(s, p + 1, Lower \cup Upper) - 1
       IN IF s[p].c = "." /\ l - p >= 2 /\ ~IsWordAt(s, l + 1) THEN l
          ELSE TldEnd(s, d, p - 1)

\* /\b[a-zA-Z0-9._%+-]+@[a-zA-Z0-9.-]+\.[a-zA-Z]{2,}\b/g: markdown-worker.js:94
emailAt(s, i) ==
  LET a == Skip(s, i, EmailLocal)
      e == TldEnd(s, a + 1, Skip(s, a + 1, EmailDomain) - 1)
      m == Sub(s, i, e)
  IN IF /\ WordBoundary(s, i)
        /\ a > i
        /\ At(s, a, <<"@">>)
        /\ e # 0
     THEN [end |-> e,
           out |-> Lit(A_HREF) \o Lit(MAILTO) \o m \o Lit(A_CLOSE) \o m \o Lit(A_E)]
     ELSE NoMatch

\* String.prototype.trim
RECURSIVE TrimEnd(_)
TrimEnd(s) ==
  IF s # <<>> /\ s[Len(s)].c \in Space THEN TrimEnd(Sub(s, 1, Len(s) - 1)) ELSE s

Trim(s) == TrimEnd(Sub(s, Skip(s, 1, Space), Len(s)))

FENCE      == <<BQ, BQ, BQ>>
PRE_CODE   == <<"<","p","r","e",">","<","c","o","d","e",">">>
PRE_CODE_L == <<"<","p","r","e",">","<","c","o","d","e"," ","c","l","a","s","s","=","\"",
                "l","a","n","g","u","a","g","e","-">>
PRE_CODE_E == <<"<","/","c","o","d","e",">","<","/","p","r","e",">">>

\* the fenced code pattern and its callback: markdown-worker.js:97-100
fenceAt(s, i) ==
  LET w    == Skip(s, i + 3, Word)
      j    == FindStr(s, w + 1, FENCE)
      lang == Sub(s, i + 3, w - 1)
      open == IF lang # <<>> THEN Lit(PRE_CODE_L) \o lang \o Lit(A_CLOSE)
                             ELSE Lit(PRE_CODE)
  IN IF At(s, i, FENCE) /\ At(s, w, <<NL>>) /\ j # 0
     THEN [end |-> j + 2,
           out |-> open \o escapeHtml(Trim(Sub(s, w + 1, j - 1))) \o Lit(PRE_CODE_E)]
     ELSE NoMatch

\* /^(    .+)$/gm and its callback: markdown-worker.js:103-105
indentAt(s, i) ==
  LET e == Find(s, i + 4, {NL}) - 1
  IN IF LineStart(s, i) /\ At(s, i, <<" "," "," "," ">>) /\ e >= i + 4
     THEN [end |-> e,
           out |-> Lit(PRE_CODE) \o escapeHtml(Sub(s, i + 4, e)) \o Lit(PRE_CODE_E)]
     ELSE NoMatch

BLOCKQUOTE   == <<"<","b","l","o","c","k","q","u","o","t","e",">">>
BLOCKQUOTE_E == <<"<","/","b","l","o","c","k","q","u","o","t","e",">">>
LI           == <<"<","l","i",">">>
LI_E         == <<"<","/","l","i",">">>
UL           == <<"<","u","l",">">>
UL_E         == <<"<","/","u","l",">">>

\* /^>\s+(.+)$/gm: markdown-worker.js:108
blockquoteAt(s, i) ==
  IF LineStart(s, i) /\ At(s, i, <<">">>)
  THEN MarkedLine(s, i + 1, BLOCKQUOTE, BLOCKQUOTE_E)
  ELSE NoMatch

\* /^[\s]*[-*+]\s+(.+)$/gm: markdown-worker.js:111
ulItemAt(s, i) ==
  LET m == Skip(s, i, Space)
  IN IF LineStart(s, i) /\ m <= Len(s) /\ s[m].c \in {"-", "*", "+"}
     THEN MarkedLine(s, m + 1, LI, LI_E)
     ELSE NoMatch

\* /^[\s]*\d+\.\s+(.+)$/gm: markdown-worker.js:115
olItemAt(s, i) ==
  LET m == Skip(s, i, Space)
      d == Skip(s, m, Digit)
  IN IF LineStart(s, i) /\ d > m /\ At(s, d, <<".">>)
     THEN MarkedLine(s, d + 1, LI, LI_E)
     ELSE NoMatch

\* last position in a..b where t stands, or 0
FindLast(s, a, b, t) ==
  IF \E j \in a..b : At(s, j, t)
  THEN CHOOSE j \in a..b : At(s, j, t) /\ \A k \in (j + 1)..b : ~At(s, k, t)
  ELSE 0

\* html.replace(/(<li>.*<\/li>)/s, '<ul>$1</ul>'), no g flag: the first
\* <li> up to the last </li> of the document.  markdown-worker.js:112
wrapList(s) ==
  LET a == FindStr(s, 1, LI)
      b == FindLast(s, a + 4, Len(s), LI_E)
  IN IF a = 0 \/ b = 0 THEN s
     ELSE Sub(s, 1, a - 1) \o Lit(UL) \o Sub(s, a, b + 4) \o Lit(UL_E)
          \o Sub(s, b + 5, Len(s))

\* /\n\s*\n/: a line break, then white space up to its last line break;
\* the result is that last line break's position, or 0
BlankEnd(s, i) ==
  IF At(s, i, <<NL>>)
  THEN FindLast(s, i + 1, Skip(s, i + 1, Space) - 1, <<NL>>)
  ELSE 0

\* html.replace(/\n\s*\n/g, '\n'): markdown-worker.js:124
blankAt(s, i) ==
  LET e == BlankEnd(s, i)
  IN IF e # 0 THEN [end |-> e, out |-> Lit(<<NL>>)] ELSE NoMatch

\* /^# (.*$)/gim and its h2 and h3 likes of the main-thread conversion:
\* ui-controller.js:280-282.  One blank follows the marker, and (.*) is
\* the rest of the line, which may be empty.
simpleHeaderAt(k, s, i) ==
  LET e == Find(s, i + k + 1, {NL}) - 1
  IN IF LineStart(s, i) /\ At(s, i, Hashes(k) \o <<" ">>)
     THEN [end |-> e,
           out |-> Lit(<<"<","h",HeaderTag(k),">">>) \o Sub(s, i + k + 1, e)
                   \o Lit(<<"<","/","h",HeaderTag(k),">">>)]
     ELSE NoMatch

(***************************************************************************)
(* String.prototype.replace with a g pattern: the matcher is tried at      *)
(* every position from left to right, and the search resumes after a       *)
(* match.                                                                  *)
(***************************************************************************)
MatchAt(rx, s, i) ==
  CASE rx = "h6"     -> headerAt(6, s, i)
    [] rx = "h5"     -> headerAt(5, s, i)
    [] rx = "h4"     -> headerAt(4, s, i)
    [] rx = "h3"     -> headerAt(3, s, i)
    [] rx = "h2"     -> headerAt(2, s, i)
    [] rx = "h1"     -> headerAt(1, s, i)
    [] rx = "bold*"  -> spanAt(s, i, <<"*","*">>, STRONG, STRONG_E)
    [] rx = "bold_"  -> spanAt(s, i, <<"_","_">>, STRONG, STRONG_E)
    [] rx = "em*"    -> spanAt(s, i, <<"*">>, EM, EM_E)
    [] rx = "em_"    -> spanAt(s, i, <<"_">>, EM, EM_E)
    [] rx = "del"    -> spanAt(s, i, <<"~","~">>, DEL, DEL_E)
    [] rx = "code"   -> inlineCodeAt(s, i)
    [] rx = "link"   -> linkAt(s, i)
    [] rx = "url"    -> urlAt(s, i)
    [] rx = "email"  -> emailAt(s, i)
    [] rx = "fence"  -> fenceAt(s, i)
    [] rx = "indent" -> indentAt(s, i)
    [] rx = "quote"  -> blockquoteAt(s, i)
    [] rx = "ul"     -> ulItemAt(s, i)
    [] rx = "ol"     -> olItemAt(s, i)
    [] rx = "blank"  -> blankAt(s, i)
    [] rx = "simple-h1"   -> simpleHeaderAt(1, s, i)
    [] rx = "simple-h2"   -> simpleHeaderAt(2, s, i)
    [] rx = "simple-h3"   -> simpleHeaderAt(3, s, i)
    [] rx = "simple-code" -> spanAt(s, i, <<BQ>>, CODE, CODE_E)

\* the positions of s where the pattern rx matches
MatchStarts(rx, s) == { j \in 1..Len(s) : MatchAt(rx, s, j).end # 0 }

\* the least member of a non-empty set of positions
First(ps) == CHOOSE j \in ps : \A k \in ps : j <= k

\* String.prototype.replace with a g pattern, from position i on: the
\* leftmost match at or after i is replaced and the scan resumes after it;
\* starts is MatchStarts(rx, s)
RECURSIVE ReplaceFrom(_, _, _, _, _)
ReplaceFrom(rx, s, starts, i, acc) ==
  IF i > Len(s) THEN acc
  ELSE LET ahead == { j \in starts : j >= i }
       IN IF ahead = {} THEN acc \o Sub(s, i, Len(s))
          ELSE LET n == First(ahead)
                   m == MatchAt(rx, s, n)
               IN ReplaceFrom(rx, s, starts, m.end + 1,
                              acc \o Sub(s, i, n - 1) \o m.out)

ReplaceAll(rx, s) == ReplaceFrom(rx, s, MatchStarts(rx, s), 1, <<>>)

\* String.prototype.split on one character
Split(s, ch) ==
  LET seps   == { j \in 1..Len(s) : s[j].c = ch }
      \* the k-th separator; position 0 before the first part and
      \* Len(s) + 1 after the last
      sep(k) == IF k = 0 THEN 0
                ELSE IF k > Cardinality(seps) THEN Len(s) + 1
                ELSE CHOOSE j \in seps : Cardinality({ x \in seps : x < j }) = k - 1
  IN [k \in 1..(Cardinality(seps) + 1) |-> Sub(s, sep(k - 1) + 1, sep(k) - 1)]

\* String.prototype.split(/\n\s*\n/)
RECURSIVE SplitBlankFrom(_, _, _, _)
SplitBlankFrom(s, starts, from, acc) ==
  \* starts: the positions where the separator matches
  LET ahead == { j \in starts : j >= from }
  IN IF ahead = {} THEN Append(acc, Sub(s, from, Len(s)))
     ELSE LET n == First(ahead)
          IN SplitBlankFrom(s, starts, BlankEnd(s, n) + 1,
                            Append(acc, Sub(s, from, n - 1)))

\* Array.prototype.join
RECURSIVE JoinFrom(_, _, _, _)
JoinFrom(parts, i, sep, acc) ==
  IF i > Len(parts) THEN acc
  ELSE JoinFrom(parts, i + 1, sep,
                IF i = 1 THEN parts[i] ELSE acc \o Lit(sep) \o parts[i])

Join(parts, sep) == JoinFrom(parts, 1, sep, <<>>)

\* Array.prototype.filter(x => x) on strings: the non-empty ones
RECURSIVE NonEmpty(_)
NonEmpty(parts) ==
  IF parts = <<>> THEN <<>>
  ELSE IF Head(parts) = <<>> THEN NonEmpty(Tail(parts))
  ELSE <<Head(parts)>> \o NonEmpty(Tail(parts))

\* line.split('|').map(cell => cell.trim()).filter(cell => cell):
\* markdown-worker.js:180 and 191
Cells(line) ==
  LET raw == Split(line, "|")
  IN NonEmpty([k \in 1..Len(raw) |-> Trim(raw[k])])

TABLE    == <<"<","t","a","b","l","e",">",NL>>
TABLE_E  == <<"<","/","t","a","b","l","e",">">>
THEAD_TR == <<"<","t","h","e","a","d",">",NL,"<","t","r",">",NL>>
THEAD_E  == <<"<","/","t","r",">",NL,"<","/","t","h","e","a","d",">",NL>>
TBODY    == <<"<","t","b","o","d","y",">",NL>>
TBODY_E  == <<"<","/","t","b","o","d","y",">",NL>>
TR       == <<"<","t","r",">",NL>>
TR_E     == <<"<","/","t","r",">",NL>>
TH       == <<"<","t","h",">">>
TH_E     == <<"<","/","t","h",">",NL>>
TD       == <<"<","t","d",">">>
TD_E     == <<"<","/","t","d",">",NL>>

\* cells.forEach(cell => html += open + cell + close)
RECURSIVE CellsHtml(_, _, _)
CellsHtml(cells, open, close) ==
  IF cells = <<>> THEN <<>>
  ELSE Lit(open) \o Head(cells) \o Lit(close) \o CellsHtml(Tail(cells), open, close)

\* the body rows, lines[2] onwards in the code's 0-based indexing
RECURSIVE RowsHtml(_, _)
RowsHtml(lines, i) ==
  IF i > Len(lines) THEN <<>>
  ELSE Lit(TR) \o CellsHtml(Cells(lines[i]), TD, TD_E) \o Lit(TR_E)
       \o RowsHtml(lines, i + 1)

\* markdown-worker.js:174-203
convertTableLines(lines) ==
  IF Len(lines) < 2 THEN Join(lines, <<NL>>)
  ELSE Lit(TABLE)
       \o Lit(THEAD_TR) \o CellsHtml(Cells(lines[1]), TH, TH_E) \o Lit(THEAD_E)
       \o (IF Len(lines) > 2
           THEN Lit(TBODY) \o RowsHtml(lines, 3) \o Lit(TBODY_E)
           ELSE <<>>)
       \o Lit(TABLE_E)

\* line.includes('|') && line.trim().split('|').length > 2: markdown-worker.js:144
IsTableLine(line) ==
  /\ \E k \in 1..Len(line) : line[k].c = "|"
  /\ Len(Split(Trim(line), "|")) > 2

\* the loop of processSimpleTables and the flush after it: markdown-worker.js:141-164
RECURSIVE TableLoop(_, _, _, _, _)
TableLoop(lines, i, inTable, tableLines, result) ==
  IF i > Len(lines)
  THEN IF inTable /\ Len(tableLines) > 0
       THEN Append(result, convertTableLines(tableLines))
       ELSE result
  ELSE IF IsTableLine(lines[i])
       THEN TableLoop(lines, i + 1, TRUE,
                      Append(IF inTable THEN tableLines ELSE <<>>, lines[i]), result)
       ELSE TableLoop(lines, i + 1, FALSE, <<>>,
                      Append(IF inTable
                             THEN Append(result, convertTableLines(tableLines))
                             ELSE result,
                             lines[i]))

\* markdown-worker.js:135-167
processSimpleTables(html) ==
  Join(TableLoop(Split(html, NL), 1, FALSE, <<>>, <<>>), <<NL>>)

\* trimmed.match(/^<(h[1-6]|blockquote|pre|ul|ol|table|div)/): markdown-worker.js:219
IsBlockElement(t) ==
  /\ At(t, 1, <<"<">>)
  /\ \/ At(t, 2, <<"h">>) /\ Len(t) >= 3 /\ t[3].c \in {"1","2","3","4","5","6"}
     \/ At(t, 2, <<"b","l","o","c","k","q","u","o","t","e">>)
     \/ At(t, 2, <<"p","r","e">>)
     \/ At(t, 2, <<"u","l">>)
     \/ At(t, 2, <<"o","l">>)
     \/ At(t, 2, <<"t","a","b","l","e">>)
     \/ At(t, 2, <<"d","i","v">>)

P    == <<"<","p",">">>
P_E  == <<"<","/","p",">">>
BR   == <<"<","b","r",">">>

\* trimmed.replace(/\n/g, '<br>'): markdown-worker.js:224
RECURSIVE WithBreaks(_, _, _)
WithBreaks(s, i, acc) ==
  LET n == Find(s, i, {NL})
  IN IF n > Len(s) THEN acc \o Sub(s, i, Len(s))
     ELSE WithBreaks(s, n + 1, acc \o Sub(s, i, n - 1) \o Lit(BR))

\* the callback of paragraphs.map: markdown-worker.js:214-226
Paragraph(paragraph) ==
  LET trimmed == Trim(paragraph)
  IN IF trimmed = <<>> THEN <<>>
     ELSE IF IsBlockElement(trimmed) THEN trimmed
     ELSE Lit(P) \o WithBreaks(trimmed, 1, <<>>) \o Lit(P_E)

\* markdown-worker.js:210-229
processParagraphs(html) ==
  LET paragraphs ==
        SplitBlankFrom(html, { j \in 1..Len(html) : BlankEnd(html, j) # 0 }, 1, <<>>)
  IN Join(NonEmpty([k \in 1..Len(paragraphs) |-> Paragraph(paragraphs[k])]),
          <<NL, NL>>)

\* one statement html = ... of convertMarkdownToHtml: a replace with the
\* pattern of that name, or one of the calls of markdown-worker.js:112-125
Stage(name, html) ==
  CASE name = "wrap"       -> wrapList(html)
    [] name = "tables"     -> processSimpleTables(html)
    [] name = "paragraphs" -> processParagraphs(html)
    [] name = "trim"       -> Trim(html)
    [] OTHER               -> ReplaceAll(name, html)

\* the statements named by stages, applied to html in their order: the
\* first half of them, then the second half.  Every statement leaves an
\* empty string empty.
RECURSIVE Pipeline(_, _)
Pipeline(stages, html) ==
  IF html = <<>> \/ stages = <<>> THEN html
  ELSE IF Len(stages) = 1 THEN Stage(stages[1], html)
  ELSE LET half == Len(stages) \div 2
       IN Pipeline(SubSeq(stages, half + 1, Len(stages)),
                   Pipeline(SubSeq(stages, 1, half), html))

\* markdown-worker.js:59-128
convertMarkdownToHtml(markdown, options) ==
  Pipeline(<<"h6", "h5", "h4", "h3", "h2", "h1", "bold*", "bold_", "em*", "em_",
             "del", "code", "link", "url", "email", "fence", "indent", "quote",
             "ul", "wrap", "ol", "tables", "paragraphs", "blank", "trim">>,
           escapeHtml(markdown))

(***************************************************************************)
(* calculateStats (markdown-worker.js:257-276)                             *)
(***************************************************************************)

\* /^#{1,6}\s/gm: the last position of the match at i, or 0
statHeaderEnd(s, i) ==
  LET h == Skip(s, i, {"#"})
  IN IF LineStart(s, i) /\ h > i /\ h - i <= 6 /\ h <= Len(s) /\ s[h].c \in Space
     THEN h ELSE 0

\* the fenced block pattern of markdown-worker.js:272: three backticks, as
\* little as possible of anything, three backticks
statFenceEnd(s, i) ==
  LET j == FindStr(s, i + 3, FENCE)
  IN IF At(s, i, FENCE) /\ j # 0 THEN j + 2 ELSE 0

\* /<\w+[^>]*>/g
statElementEnd(s, i) ==
  LET e == Find(s, i + 2, {">"})
  IN IF At(s, i, <<"<">>) /\ IsWordAt(s, i + 1) /\ e <= Len(s) THEN e ELSE 0

StatEnd(rx, s, i) ==
  CASE rx = "headers"    -> statHeaderEnd(s, i)
    [] rx = "links"      -> linkAt(s, i).end
    [] rx = "codeBlocks" -> statFenceEnd(s, i)
    [] rx = "inlineCode" -> inlineCodeAt(s, i).end
    [] rx = "elements"   -> statElementEnd(s, i)

\* (s.match(rx) || []).length for a g pattern
RECURSIVE CountFrom(_, _, _, _, _)
CountFrom(rx, s, starts, i, n) ==
  \* starts: the positions where the pattern matches
  LET ahead == { j \in starts : j >= i }
  IN IF ahead = {} THEN n
     ELSE CountFrom(rx, s, starts, StatEnd(rx, s, First(ahead)) + 1, n + 1)

match(rx, s) == CountFrom(rx, s, { j \in 1..Len(s) : StatEnd(rx, s, j) # 0 }, 1, 0)

calculateStats(markdown, html, processingTime) ==
  [processingTime |-> processingTime,
   inputLength    |-> Len(markdown),
   outputLength   |-> Len(html),
   elementCount   |-> match("elements", html),
   headers        |-> match("headers", markdown),
   links          |-> match("links", markdown),
   codeBlocks     |-> match("codeBlocks", markdown),
   inlineCode     |-> match("inlineCode", markdown)]

(***************************************************************************)
(* The worker's message handling (markdown-worker.js:22-51, 284-313)       *)
(*                                                                         *)
(* A JavaScript value is a record with its typeof; a string also has its   *)
(* characters.                                                             *)
(***************************************************************************)
Undefined == [typeof |-> "undefined"]

JsString(chars) == [typeof |-> "string", chars |-> chars]

\* the longest the worker's clock advances during one conversion, in ticks
MaxElapsed == 1

\* markdown-worker.js:284-291; the worker's clock reads `now`
sendResponse(id, type, payload, now) ==
  [id |-> id, type |-> type, payload |-> payload, timestamp |-> now]

\* the readings of performance.now() - startTime and of Date.now() that one
\* call of the handler can see
Elapsed == 0..MaxElapsed

\* markdown-worker.js:22-51: the responses the handler can post, one for
\* each reading of the clock.  Destructuring a missing payload throws, and
\* so does the validation of a markdown that is empty or no string: both
\* end in the catch block.
handleConvertMarkdown(message) ==
  IF \/ message.payload = Undefined
     \/ message.payload.markdown.typeof # "string"
     \/ message.payload.markdown.chars = <<>>
  THEN { sendResponse(message.id, "CONVERSION_ERROR",
                      [error |-> IF message.payload = Undefined
                                 THEN "TypeError"
                                 ELSE "Invalid markdown input"],
                      elapsed) : elapsed \in Elapsed }
  ELSE LET markdown == message.payload.markdown.chars
           html     == convertMarkdownToHtml(markdown, message.payload.options)
       IN { sendResponse(message.id, "CONVERSION_COMPLETE",
                         [html  |-> html,
                          stats |-> calculateStats(markdown, html, elapsed)],
                         elapsed) : elapsed \in Elapsed }

\* the keys of messageHandlers: markdown-worker.js:14-16
HandledTypes == {"CONVERT_MARKDOWN"}

\* self.onmessage without its answer to a message of an unknown type
onmessage_SilentOnUnknown ==
  /\ inbox # <<>>
  /\ LET event == Head(inbox)
     IN IF event.type \in HandledTypes
        THEN \E response \in handleConvertMarkdown(event) :
               outbox' = Append(outbox, response)
        ELSE outbox' = outbox
  /\ received' = Append(received, Head(inbox))
  /\ inbox' = Tail(inbox)
  /\ UNCHANGED app

\* self.onmessage: markdown-worker.js:296-307
onmessage ==
  /\ inbox # <<>>
  /\ LET event == Head(inbox)
     IN \E response \in
             IF event.type \in HandledTypes
             THEN handleConvertMarkdown(event)
             ELSE { sendResponse(event.id, "CONVERSION_ERROR",
                                 [error |-> "Unknown message type"], elapsed) :
                    elapsed \in Elapsed } :
          outbox' = Append(outbox, response)
  /\ received' = Append(received, Head(inbox))
  /\ inbox' = Tail(inbox)
  /\ UNCHANGED app

Next == onmessage

(***************************************************************************)
(* Requests.  A markdown input is a concatenation of at most n fragments   *)
(* of a fragment set; every specification below draws the one request of   *)
(* a run from its own fragment set.                                        *)
(***************************************************************************)
RECURSIVE Inputs(_, _)
Inputs(frags, n) ==
  IF n = 0 THEN { <<>> }
  ELSE LET shorter == Inputs(frags, n - 1)
       IN shorter \cup { s \o f : s \in shorter, f \in frags }

\* the maxInputSize of the application's configuration and the default
\* maxLength of Utils.validateMarkdown
DefaultMaxInputLength == 10000

\* the options UIController.processInput sends: ui-controller.js:251-254
UiOptions ==
  [preserveJiraLinks |-> TRUE, sanitizeHtml |-> TRUE,
   maxInputLength |-> DefaultMaxInputLength]

Request(markdown, options) ==
  [id |-> 1, type |-> "CONVERT_MARKDOWN",
   payload |-> [markdown |-> JsString(Typed(markdown)), options |-> options]]

\* the worker is driven alone: its messages are put into inbox directly
Detached == [phase |-> "detached"]

\* the worker has loaded and posted WORKER_READY (markdown-worker.js:310-313);
\* one request is on its way to it
InitWith(markdowns, optionSet) ==
  /\ inbox \in { <<Request(m, o)>> : m \in markdowns, o \in optionSet }
  /\ received = <<>>
  /\ outbox = << [type |-> "WORKER_READY", timestamp |-> 0] >>
  /\ app = Detached

HTTP == <<"h","t","t","p",":","/","/">>

\* general markdown
MaxLen == 3

Fragments ==
  { <<"a">>, <<"<">>, <<"*">>, <<"_">>, <<NL>>, <<"#"," ">>, <<"|">>, <<BQ>>,
    <<"[","a","]","(">>, <<")">>, HTTP, <<"@","b",".","c","o">> }

Init == InitWith(Inputs(Fragments, MaxLen), {UiOptions})

Spec == Init /\ [][Next]_vars

\* explicit links and auto-links
MaxLinkLen == 5

LinkFragments ==
  { <<"[","t","]","(">>, <<")">>, <<"t">>, <<"&">>, HTTP, <<"j","s",":">> }

InitLinks == InitWith(Inputs(LinkFragments, MaxLinkLen), {UiOptions})

SpecLinks == InitLinks /\ [][Next]_vars

\* code spans, fenced code and indented code
MaxCodeLen == 5

CodeFragments ==
  { <<BQ>>, FENCE, <<"*","*">>, <<"a">>, <<"<">>, <<NL>>, <<" "," "," "," ">> }

InitCode == InitWith(Inputs(CodeFragments, MaxCodeLen), {UiOptions})

SpecCode == InitCode /\ [][Next]_vars

\* mentions and issue keys, with preserveJiraLinks on and off
MaxJiraLen == 5

JiraFragments ==
  { <<"@","a">>, <<"_">>, <<"a">>, <<" ">>, <<"A","B","-","1">> }

InitJira ==
  InitWith(Inputs(JiraFragments, MaxJiraLen),
           { [UiOptions EXCEPT !.preserveJiraLinks = b] : b \in BOOLEAN })

SpecJira == InitJira /\ [][Next]_vars

\* requests around a small maxInputLength, and with the default one
MaxSizeLen == 4

SmallMaxInputLength == 2

SizeFragments == { <<"a">>, <<"#">>, <<" ">>, <<"*">> }

InitSize ==
  InitWith(Inputs(SizeFragments, MaxSizeLen),
           { [UiOptions EXCEPT !.maxInputLength = n] :
             n \in {SmallMaxInputLength, DefaultMaxInputLength} })

SpecSize == InitSize /\ [][Next]_vars

(***************************************************************************)
(* The conversions of a run: a request the worker received, with the html  *)
(* of the CONVERSION_COMPLETE response that carries its id.                *)
(***************************************************************************)
Conversions ==
  { [markdown |-> received[p[1]].payload.markdown.chars,
     options  |-> received[p[1]].payload.options,
     html     |-> outbox[p[2]].payload.html] :
    p \in { q \in (1..Len(received)) \X (1..Len(outbox)) :
            /\ outbox[q[2]].type = "CONVERSION_COMPLETE"
            /\ outbox[q[2]].id = received[q[1]].id } }

\* t stands somewhere in s
Contains(s, t) == \E i \in 1..Len(s) : At(s, i, t)

HasChar(s, c) == \E i \in 1..Len(s) : s[i].c = c

EntityTexts ==
  { <<"&","a","m","p",";">>, <<"&","l","t",";">>, <<"&","g","t",";">>,
    <<"&","q","u","o","t",";">>, <<"&","#","3","9",";">> }

\* every < and > of h was written by a conversion stage, and every & of h
\* was written by escapeHtml and starts a complete entity
EscapedOnly(h) ==
  \A i \in 1..Len(h) :
    /\ h[i].c \in {"<", ">"} => h[i].o = "tag"
    /\ h[i].c = "&" => h[i].o # "in" /\ \E e \in EntityTexts : At(h, i, e)

\* C1: the html of a conversion contains no unescaped <, > or & of the
\* input: each appears only as an entity, and every raw < or > belongs to a
\* tag emitted by a conversion stage.
C1_EscapingInvariant == \A cv \in Conversions : EscapedOnly(cv.html)

\* the href values of h start with an allowed scheme
AllowedScheme(h, i) ==
  \/ At(h, i, <<"h","t","t","p",":">>)
  \/ At(h, i, <<"h","t","t","p","s",":">>)
  \/ At(h, i, MAILTO)

\* C2: every <a> of the html has an href whose scheme is http, https or
\* mailto; an explicit link whose url has another scheme or none emits no <a>.
C2_AnchorSchemes ==
  \A cv \in Conversions :
    \A i \in 1..Len(cv.html) :
      At(cv.html, i, A_HREF) => AllowedScheme(cv.html, i + Len(A_HREF))

\* the tag name that follows the < at position i of h
TagNameAt(h, i) ==
  LET from == IF At(h, i + 1, <<"/">>) THEN i + 2 ELSE i + 1
  IN Text(Sub(h, from, Skip(h, from, Word) - 1))

TagNames(h) == { TagNameAt(h, i) : i \in { k \in 1..Len(h) : h[k].c = "<" } }

AllowedTags ==
  { <<"p">>, <<"b","r">>, <<"s","t","r","o","n","g">>, <<"e","m">>,
    <<"d","e","l">>, <<"c","o","d","e">>, <<"p","r","e">>,
    <<"h","1">>, <<"h","2">>, <<"h","3">>, <<"h","4">>, <<"h","5">>, <<"h","6">>,
    <<"u","l">>, <<"o","l">>, <<"l","i">>, <<"a">>,
    <<"b","l","o","c","k","q","u","o","t","e">>,
    <<"t","a","b","l","e">>, <<"t","h","e","a","d">>, <<"t","b","o","d","y">>,
    <<"t","r">>, <<"t","d">>, <<"t","h">> }

\* C3: with sanitizeHtml true, every tag name that appears in the html is a
\* member of the allowed set.
C3_TagWhitelist ==
  \A cv \in Conversions :
    cv.options.sanitizeHtml => TagNames(cv.html) \subseteq AllowedTags

\* an input with a literal < and emphasis markers was converted with
\* sanitizeHtml true, and its html holds tags
C3_Witness ==
  \E cv \in Conversions :
    /\ cv.options.sanitizeHtml
    /\ HasChar(cv.markdown, "<")
    /\ HasChar(cv.markdown, "*")
    /\ {<<"p">>, <<"e","m">>} \subseteq TagNames(cv.html)

\* C4: escaping is applied to each piece of text exactly once: no stage
\* escapes text that is already escaped or a tag an earlier stage emitted,
\* also on lines indented by four or more spaces.
C4_EscapedOnce ==
  \A cv \in Conversions : \A i \in 1..Len(cv.html) : cv.html[i].o # "esc2"

\* the positions of the backticks of s
Backticks(s) == { i \in 1..Len(s) : s[i].c = BQ }

\* md is one line of paragraph text that holds exactly one code span
HasOneCodeSpan(md) ==
  /\ Cardinality(Backticks(md)) = 2
  /\ \A i \in Backticks(md) : i + 1 \notin Backticks(md)
  /\ ~HasChar(md, NL)
  /\ md[1].c # " "

\* the text between the two backticks of md
CodeSpanText(md) ==
  LET i == CHOOSE k \in Backticks(md) : \A j \in Backticks(md) : k <= j
      j == CHOOSE k \in Backticks(md) : \A l \in Backticks(md) : k >= l
  IN Sub(md, i + 1, j - 1)

\* C5: code-span extraction wins over every other inline rule: the text
\* between the backticks is emitted inside <code> exactly as escaped.
C5_CodeSpanWins ==
  \A cv \in Conversions :
    HasOneCodeSpan(cv.markdown) =>
      Contains(cv.html,
               CODE \o Text(escapeHtml(CodeSpanText(cv.markdown))) \o CODE_E)

\* md is a terminated fenced block and nothing else: an opening fence with
\* an optional language token, content lines, a closing fence
FenceBodyFrom(md) == Skip(md, 4, Word) + 1

FenceBody(md) == Sub(md, FenceBodyFrom(md), Len(md) - 4)

IsFencedBlock(md) ==
  /\ Len(md) >= 9
  /\ At(md, 1, FENCE)
  /\ At(md, FenceBodyFrom(md) - 1, <<NL>>)
  /\ At(md, Len(md) - 3, <<NL>> \o FENCE)
  /\ FenceBodyFrom(md) <= Len(md) - 4
  /\ LET body == FenceBody(md)
     IN /\ ~HasChar(body, BQ)
        /\ ~Contains(body, <<NL, NL>>)
        /\ body[1].c \notin Space
        /\ body[Len(body)].c \notin Space

FencedBlockHtml(md) ==
  LET lang == Sub(md, 4, FenceBodyFrom(md) - 2)
  IN (IF lang # <<>> THEN PRE_CODE_L \o Text(lang) \o A_CLOSE ELSE PRE_CODE)
     \o Text(escapeHtml(FenceBody(md))) \o PRE_CODE_E

\* C6: a terminated fenced code block is emitted as one <pre><code> element
\* (with class language-<lang> when a language is given) whose content is
\* the escaped content lines, with no markdown transformation applied.
C6_FencedBlock ==
  \A cv \in Conversions :
    IsFencedBlock(cv.markdown) => Text(cv.html) = FencedBlockHtml(cv.markdown)

\* the responses posted for the request with this id
ResponsesTo(id) ==
  { k \in 1..Len(outbox) : outbox[k].type # "WORKER_READY" /\ outbox[k].id = id }

\* C7: a request whose markdown is longer than maxInputLength fails with an
\* error and returns no html; a request whose markdown is not longer is not
\* rejected for its size.
C7_InputTooLarge ==
  \A j \in 1..Len(received) :
    LET md  == received[j].payload.markdown.chars
        max == received[j].payload.options.maxInputLength
    IN \A k \in ResponsesTo(received[j].id) :
         /\ Len(md) > max => outbox[k].type = "CONVERSION_ERROR"
         /\ (md # <<>> /\ Len(md) <= max) => outbox[k].type = "CONVERSION_COMPLETE"

\* the depth of open <a> elements never exceeds one: the last anchor tag
\* before an opening <a is a closing one
AnchorsFlat(h) ==
  LET opens  == { i \in 1..Len(h) : At(h, i, <<"<","a"," ">>) }
      closes == { i \in 1..Len(h) : At(h, i, A_E) }
  IN \A i \in opens :
       LET before == { j \in opens \cup closes : j < i }
       IN before = {} \/ (CHOOSE j \in before : \A k \in before : k <= j) \in closes

\* C9: the auto-link stages never transform text that is part of an anchor
\* emitted by an earlier stage: the html has no <a> inside another <a> and
\* no <a> tag inside an href value.
C9_NoNestedAnchor == \A cv \in Conversions : AnchorsFlat(cv.html)

\* @[\w.]+ at position i of md: the last position of the token, or 0
MentionEnd(md, i) ==
  LET e == Skip(md, i + 1, Word \cup {"."}) - 1
  IN IF md[i].c = "@" /\ e > i THEN e ELSE 0

\* [A-Z][A-Z0-9]+-\d+ at position i of md: the last position of the token, or 0
IssueKeyEnd(md, i) ==
  LET r == Skip(md, i + 1, Upper \cup Digit)
      e == Skip(md, r + 1, Digit) - 1
  IN IF md[i].c \in Upper /\ r > i + 1 /\ At(md, r, <<"-">>) /\ e > r
     THEN e ELSE 0

JiraTokens(md) ==
  { Text(Sub(md, i, MentionEnd(md, i))) :
      i \in { k \in 1..Len(md) : MentionEnd(md, k) # 0 } }
  \cup
  { Text(Sub(md, i, IssueKeyEnd(md, i))) :
      i \in { k \in 1..Len(md) : IssueKeyEnd(md, k) # 0 } }

\* C10: with preserveJiraLinks true, every mention and issue key of the
\* input appears in the html character for character, with no tag inside it.
C10_JiraTokensPreserved ==
  \A cv \in Conversions :
    cv.options.preserveJiraLinks =>
      \A t \in JiraTokens(cv.markdown) : Contains(cv.html, t)

(***************************************************************************)
(* Tables: requests made of pipe lines                                     *)
(***************************************************************************)
MaxTableLen == 5

TableFragments ==
  { <<"|","a","|">>, <<"|","b","|","a","|">>, <<"|","-","|">>,
    <<"a","|","b">>, <<"-","|","-">>, <<NL>> }

InitTable == InitWith(Inputs(TableFragments, MaxTableLen), {UiOptions})

SpecTable == InitTable /\ [][Next]_vars

\* the characters of h that the user typed, in their order
IsTyped(ch) == ch.o = "in"

TypedOnly(h) == SelectSeq(h, IsTyped)

\* the cells of a pipe line as its reader takes them: the texts between the
\* pipes, trimmed; a pipe that begins or ends the line bounds no cell
RowCells(line) ==
  LET parts == Split(Trim(line), "|")
      from  == IF parts[1] = <<>> THEN 2 ELSE 1
      to    == IF parts[Len(parts)] = <<>> THEN Len(parts) - 1 ELSE Len(parts)
  IN [k \in 1..(to - from + 1) |-> Trim(parts[from + k - 1])]

\* :?-+:?
IsSeparatorCell(cell) ==
  LET a == IF At(cell, 1, <<":">>) THEN 2 ELSE 1
      b == Skip(cell, a, {"-"})
  IN b > a /\ (b = Len(cell) + 1 \/ (b = Len(cell) /\ cell[b].c = ":"))

IsSeparatorRow(line) ==
  /\ RowCells(line) # <<>>
  /\ \A k \in 1..Len(RowCells(line)) : IsSeparatorCell(RowCells(line)[k])

\* the whole markdown is one run of two or more lines that all hold a pipe
IsPipeRun(md) ==
  /\ Len(Split(md, NL)) >= 2
  /\ \A k \in 1..Len(Split(md, NL)) : HasChar(Split(md, NL)[k], "|")

TABLE_OPEN == <<"<","t","a","b","l","e">>

\* C11: a run of pipe lines whose second line is no separator row opens no
\* table, and the text of every cell of every line of the run is still in
\* the html.
C11_TableNeedsSeparator ==
  \A cv \in Conversions :
    LET lines == Split(cv.markdown, NL)
    IN (IsPipeRun(cv.markdown) /\ ~IsSeparatorRow(lines[2])) =>
         /\ ~Contains(cv.html, TABLE_OPEN)
         /\ \A k \in 1..Len(lines) :
              \A c \in 1..Len(RowCells(lines[k])) :
                RowCells(lines[k])[c] # <<>> =>
                  Contains(TypedOnly(cv.html), Text(RowCells(lines[k])[c]))

\* the characters of s without its line breaks
IsNoBreak(ch) == ch # NL

NoBreaks(s) == SelectSeq(s, IsNoBreak)

\* open, cell, close for each cell of cells, in order
RECURSIVE TaggedCells(_, _, _)
TaggedCells(cells, open, close) ==
  IF cells = <<>> THEN <<>>
  ELSE open \o Text(Head(cells)) \o close \o TaggedCells(Tail(cells), open, close)

\* one <tr> of <td> cells for each of the lines from the i-th on
RECURSIVE TaggedRows(_, _)
TaggedRows(lines, i) ==
  IF i > Len(lines) THEN <<>>
  ELSE <<"<","t","r",">">>
       \o TaggedCells(RowCells(lines[i]), <<"<","t","d",">">>, <<"<","/","t","d",">">>)
       \o <<"<","/","t","r",">">> \o TaggedRows(lines, i + 1)

\* the table the lines describe: the first line's cells as the header row,
\* the lines after the separator row as the body rows
ExpectedTable(lines) ==
  <<"<","t","a","b","l","e",">">>
  \o <<"<","t","h","e","a","d",">">> \o <<"<","t","r",">">>
  \o TaggedCells(RowCells(lines[1]), <<"<","t","h",">">>, <<"<","/","t","h",">">>)
  \o <<"<","/","t","r",">">> \o <<"<","/","t","h","e","a","d",">">>
  \o <<"<","t","b","o","d","y",">">> \o TaggedRows(lines, 3)
  \o <<"<","/","t","b","o","d","y",">">>
  \o <<"<","/","t","a","b","l","e",">">>

\* every line has a cell and no empty cell
AllCellsFilled(lines) ==
  \A k \in 1..Len(lines) :
    /\ RowCells(lines[k]) # <<>>
    /\ \A c \in 1..Len(RowCells(lines[k])) : RowCells(lines[k])[c] # <<>>

\* C12: a run of three or more pipe lines with a separator row as its second
\* line and no empty cell gives exactly one table: one header row with the
\* first line's cells as <th>, and one body row for each line after the
\* separator row with that line's cells as <td>, all in order.
C12_TableRows ==
  \A cv \in Conversions :
    LET lines == Split(cv.markdown, NL)
    IN (/\ IsPipeRun(cv.markdown)
        /\ Len(lines) >= 3
        /\ IsSeparatorRow(lines[2])
        /\ AllCellsFilled(lines)) =>
         NoBreaks(Text(cv.html)) = ExpectedTable(lines)

\* the number of places in a..b of h where t stands
CountIn(h, a, b, t) == Cardinality({ i \in a..b : At(h, i, t) })

\* the <tr> of h that holds <td> cells begin at these places
BodyRows(h) ==
  { i \in 1..Len(h) :
      /\ At(h, i, <<"<","t","r",">">>)
      /\ CountIn(h, i, FindStr(h, i, <<"<","/","t","r",">">>), <<"<","t","d",">">>) > 0 }

\* the number of <th> cells of the header row of the table that holds place i
HeaderWidth(h, i) ==
  LET head == FindLast(h, 1, i, <<"<","t","h","e","a","d",">">>)
  IN CountIn(h, head, FindStr(h, head, <<"<","/","t","h","e","a","d",">">>),
             <<"<","t","h",">">>)

\* C13: in every emitted table each body row has exactly as many <td> cells
\* as the header row has <th> cells.
C13_RowsMatchHeader ==
  \A cv \in Conversions :
    \A i \in BodyRows(cv.html) :
      CountIn(cv.html, i, FindStr(cv.html, i, <<"<","/","t","r",">">>),
              <<"<","t","d",">">>)
        = HeaderWidth(cv.html, i)

(***************************************************************************)
(* Headings and paragraphs: requests made of heading markers and text      *)
(***************************************************************************)
MaxHeadLen == 5

HeadFragments ==
  { <<"#">>, <<"#","#","#","#","#","#">>, <<" ">>, <<"a">>, <<NL>> }

InitHead == InitWith(Inputs(HeadFragments, MaxHeadLen), {UiOptions})

SpecHead == InitHead /\ [][Next]_vars

\* the number of # that begin the line
HeadingLevel(line) == Skip(line, 1, {"#"}) - 1

\* the text of a heading line: what follows the # and the blanks after them
HeadingText(line) ==
  Sub(line, Skip(line, HeadingLevel(line) + 1, {" "}), Len(line))

\* one to six #, then white space, then text
IsHeadingLine(line) ==
  /\ HeadingLevel(line) \in 1..6
  /\ At(line, HeadingLevel(line) + 1, <<" ">>)
  /\ HeadingText(line) # <<>>

LevelDigit(k) == <<"1","2","3","4","5","6">>[k]

\* <hk>text</hk>
HeadingHtml(line) ==
  <<"<", "h", LevelDigit(HeadingLevel(line)), ">">> \o Text(HeadingText(line))
  \o <<"<", "/", "h", LevelDigit(HeadingLevel(line)), ">">>

\* the places of h where a heading element opens
HeadingOpens(h) ==
  { i \in 1..Len(h) : \E k \in 1..6 : At(h, i, <<"<", "h", LevelDigit(k), ">">>) }

\* C14: every line of one to six #, white space and text is emitted as one
\* heading element of that level holding that text, and nothing else is
\* emitted as a heading: a line of seven or more # gives none.
C14_HeadingLevels ==
  \A cv \in Conversions :
    LET lines    == Split(cv.markdown, NL)
        headings == { k \in 1..Len(lines) : IsHeadingLine(lines[k]) }
    IN /\ \A k \in headings : Contains(cv.html, HeadingHtml(lines[k]))
       /\ Cardinality(HeadingOpens(cv.html)) = Cardinality(headings)

\* place i of h lies in an element that opens with open and closes with
\* close: the last open before i comes after the last close before i
InElement(h, i, open, close) ==
  FindLast(h, 1, i, open) > FindLast(h, 1, i, close)

InParagraph(h, i) == InElement(h, i, <<"<","p",">">>, <<"<","/","p",">">>)

InHeading(h, i) ==
  \E k \in 1..6 : InElement(h, i, <<"<", "h", LevelDigit(k), ">">>,
                            <<"<", "/", "h", LevelDigit(k), ">">>)

\* the opening tags of the block elements
BlockOpens ==
  { <<"<", "h", LevelDigit(k)>> : k \in 1..6 }
  \cup { <<"<","p","r","e">>, <<"<","t","a","b","l","e">>, <<"<","u","l">>,
         <<"<","o","l">>, <<"<","l","i">>,
         <<"<","b","l","o","c","k","q","u","o","t","e">> }

\* C15: no block element is emitted inside a <p>, and every piece of text
\* that is not in a heading is emitted inside a <p>, also when a text line
\* and a block line follow each other with no blank line between them.
C15_ParagraphBoundaries ==
  \A cv \in Conversions :
    \A i \in 1..Len(cv.html) :
      /\ (\E t \in BlockOpens : At(cv.html, i, t)) => ~InParagraph(cv.html, i)
      /\ (cv.html[i].o = "in" /\ cv.html[i].c \notin Space /\ ~InHeading(cv.html, i))
           => InParagraph(cv.html, i)

(***************************************************************************)
(* Lists: requests made of list markers and text                           *)
(***************************************************************************)
MaxListLen == 5

ListFragments ==
  { <<"-"," ">>, <<"+"," ">>, <<"1","."," ">>, <<"a">>, <<NL>> }

InitList == InitWith(Inputs(ListFragments, MaxListLen), {UiOptions})

SpecList == InitList /\ [][Next]_vars

\* digits, a dot, a blank and text
IsOrderedItem(line) ==
  LET d == Skip(line, 1, Digit)
  IN /\ d > 1
     /\ At(line, d, <<".", " ">>)
     /\ Skip(line, d + 1, {" "}) <= Len(line)

InUl(h, i) == InElement(h, i, <<"<","u","l",">">>, <<"<","/","u","l",">">>)

InOl(h, i) == InElement(h, i, <<"<","o","l",">">>, <<"<","/","o","l",">">>)

ListItems(h) == { i \in 1..Len(h) : At(h, i, <<"<","l","i",">">>) }

\* C16: every list item of the html is inside a list element, and the item
\* of every ordered marker is inside an <ol>, not merged into a <ul>.
C16_ListTypes ==
  \A cv \in Conversions :
    LET lines == Split(cv.markdown, NL)
    IN /\ \A i \in ListItems(cv.html) : InUl(cv.html, i) \/ InOl(cv.html, i)
       /\ Cardinality({ i \in ListItems(cv.html) : InOl(cv.html, i) })
            >= Cardinality({ k \in 1..Len(lines) : IsOrderedItem(lines[k]) })

(***************************************************************************)
(* Blockquotes: requests made of quote markers and text                    *)
(***************************************************************************)
MaxQuoteLen == 5

QuoteFragments == { <<">">>, <<" ">>, <<"a">>, <<NL>> }

InitQuote == InitWith(Inputs(QuoteFragments, MaxQuoteLen), {UiOptions})

SpecQuote == InitQuote /\ [][Next]_vars

\* maxNestingLevel of the conversion settings
DefaultMaxNestingLevel == 10

\* the number of > that begin the line after its indentation
QuoteLevel(line) ==
  Skip(line, Skip(line, 1, {" "}), {">"}) - Skip(line, 1, {" "})

\* quote markers, then text
IsQuoteLine(line) ==
  /\ QuoteLevel(line) >= 1
  /\ Skip(line, Skip(line, 1, {" "}) + QuoteLevel(line), {" "}) <= Len(line)

BQ_OPEN  == <<"<","b","l","o","c","k","q","u","o","t","e",">">>
BQ_CLOSE == <<"<","/","b","l","o","c","k","q","u","o","t","e",">">>

\* the number of blockquote elements open at place i of h
QuoteDepth(h, i) == CountIn(h, 1, i, BQ_OPEN) - CountIn(h, 1, i, BQ_CLOSE)

Largest(ns) == CHOOSE n \in ns : \A m \in ns : m <= n

Smallest(ns) == CHOOSE n \in ns : \A m \in ns : n <= m

\* C17: a line of quote markers and text is emitted in a <blockquote>, and
\* the deepest blockquote nesting of the html is the largest number of
\* leading > of a line, capped at maxNestingLevel.
C17_Blockquotes ==
  \A cv \in Conversions :
    LET lines  == Split(cv.markdown, NL)
        quotes == { k \in 1..Len(lines) : IsQuoteLine(lines[k]) }
    IN quotes # {} =>
         Largest({ QuoteDepth(cv.html, i) : i \in 1..Len(cv.html) })
           = Smallest({ DefaultMaxNestingLevel,
                        Largest({ QuoteLevel(lines[k]) : k \in quotes }) })

(***************************************************************************)
(* Nested lists: requests that are one list, each item indented one step   *)
(* more than the item before it                                            *)
(***************************************************************************)
MaxNestDepth == 20

MaxIndentStep == 4

Spaces(n) == [i \in 1..n |-> " "]

\* the items i..depth of the list, item i indented by (i - 1) * step blanks
RECURSIVE NestedItems(_, _, _, _)
NestedItems(i, depth, step, marker) ==
  IF i > depth THEN <<>>
  ELSE (IF i = 1 THEN <<>> ELSE <<NL>>)
       \o Spaces((i - 1) * step) \o <<marker, " ", "a">>
       \o NestedItems(i + 1, depth, step, marker)

NestedLists ==
  { NestedItems(1, depth, step, marker) :
      depth \in 1..MaxNestDepth, step \in 1..MaxIndentStep, marker \in {"-", "*", "+"} }

InitNest == InitWith(NestedLists, {UiOptions})

SpecNest == InitNest /\ [][Next]_vars

\* the number of list elements open at place i of h
ListDepth(h, i) ==
  CountIn(h, 1, i, <<"<","u","l",">">>) + CountIn(h, 1, i, <<"<","o","l",">">>)
  - CountIn(h, 1, i, <<"<","/","u","l",">">>) - CountIn(h, 1, i, <<"<","/","o","l",">">>)

\* C18: a list nested deeper than maxNestingLevel is converted without an
\* error, the deepest list nesting of the html is maxNestingLevel, and every
\* item of it is emitted as a list item.
C18_NestingCap ==
  \A j \in 1..Len(received) :
    LET md    == received[j].payload.markdown.chars
        depth == Len(Split(md, NL))
    IN (Text(md) \in NestedLists /\ depth > DefaultMaxNestingLevel) =>
         \A k \in ResponsesTo(received[j].id) :
           /\ outbox[k].type = "CONVERSION_COMPLETE"
           /\ Largest({ ListDepth(outbox[k].payload.html, i) :
                          i \in 1..Len(outbox[k].payload.html) })
                = DefaultMaxNestingLevel
           /\ Cardinality(ListItems(outbox[k].payload.html)) = depth

(***************************************************************************)
(* Messages of every kind: a queue of up to MaxMessages messages, each     *)
(* with a known or an unknown type and a payload that is missing, has no   *)
(* markdown string, an empty one or a proper one                           *)
(***************************************************************************)
MaxMessages == 2

MessageIds == {1, 2}

MessageTypes == {"CONVERT_MARKDOWN", "PING"}

Payloads ==
  { Undefined }
  \cup { [markdown |-> m, options |-> UiOptions] :
           m \in { Undefined, [typeof |-> "number"], JsString(<<>>),
                   JsString(Typed(<<"a">>)), JsString(Typed(<<"#"," ","a">>)) } }

Messages ==
  { [id |-> i, type |-> t, payload |-> p] :
      i \in MessageIds, t \in MessageTypes, p \in Payloads }

RECURSIVE Queues(_)
Queues(n) ==
  IF n = 0 THEN { <<>> }
  ELSE LET shorter == Queues(n - 1)
       IN shorter \cup { Append(q, m) : q \in shorter, m \in Messages }

InitMessages ==
  /\ inbox \in Queues(MaxMessages)
  /\ received = <<>>
  /\ outbox = << [type |-> "WORKER_READY", timestamp |-> 0] >>
  /\ app = Detached

SpecMessages == InitMessages /\ [][Next]_vars

\* the message can be converted: a known type and a non-empty markdown string
IsConvertible(m) ==
  /\ m.type = "CONVERT_MARKDOWN"
  /\ m.payload # Undefined
  /\ m.payload.markdown.typeof = "string"
  /\ m.payload.markdown.chars # <<>>

RECURSIVE SplitStrFrom(_, _, _, _)
SplitStrFrom(s, t, from, acc) ==
  LET n == FindStr(s, from, t)
  IN IF n = 0 THEN Append(acc, Sub(s, from, Len(s)))
     ELSE SplitStrFrom(s, t, n + Len(t), Append(acc, Sub(s, from, n - 1)))

\* p => p.trim() as a filter
IsNotBlank(p) == Trim(p) # <<>>

\* ui-controller.js:289-290
simpleParagraphs(html) ==
  LET paragraphs == SelectSeq(SplitStrFrom(html, <<NL, NL>>, 1, <<>>), IsNotBlank)
  IN Join([k \in 1..Len(paragraphs) |->
             Lit(P) \o WithBreaks(paragraphs[k], 1, <<>>) \o Lit(P_E)],
          <<NL>>)

\* ui-controller.js:276-293: the conversion on the main thread
simpleMarkdownToHtml(markdown) ==
  simpleParagraphs(
    Pipeline(<<"simple-h1", "simple-h2", "simple-h3", "bold*", "em*",
               "simple-code", "link">>, markdown))

\* the number of inputs the user types in one run
MaxTyped == 2

\* what the user types: blank, plain, a heading, markup characters
TypedInputs ==
  { Typed(m) : m \in { <<" ">>, <<"a">>, <<"#"," ","a">>, <<"<","a",">","&">> } }

WorkerNotAvailable == "Failed to process markdown: Worker not available"

WorkerResponseTimeout == "Failed to process markdown: Worker response timeout"

WorkerError == "Failed to process markdown: Worker error"

WorkerTerminated == "Failed to process markdown: Worker terminated"

\* the markup of showPlaceholderMessage: ui-controller.js:363-379
PlaceholderHTML == Lit(<<"<","d","i","v",">","<","/","d","i","v",">">>)

\* new JiraMarkdownApp(), before init creates the WorkerComm: app.js:13-32,
\* worker-comm.js:8-15, ui-controller.js:17-35
AppStart ==
  [phase         |-> "worker",   \* "worker" until modules.ui exists, then "ui"
   thread        |-> "none",     \* the worker thread: none, loading, loaded,
                                 \* broken, terminated
   worker        |-> FALSE,      \* WorkerComm.worker is not null
   waiting       |-> FALSE,      \* the promise of waitForWorkerReady is pending
   isReady       |-> FALSE,
   onError       |-> FALSE,      \* WorkerComm.onError is set
   messageId     |-> 0,
   messageQueue  |-> {},
   timers        |-> {},         \* the ids whose setTimeout of sendMessage is armed
   settles       |-> <<>>,       \* history: for the request of id k, the calls
                                 \* of its resolve and reject, in order
   delivered     |-> 0,          \* messages of outbox delivered to the main thread
   workerComm    |-> FALSE,      \* UIController.workerComm is not null
   debounced     |-> <<>>,       \* the arguments of the armed timer of
                                 \* debouncedProcess, if it is armed
   isProcessing  |-> FALSE,
   currentInput  |-> <<>>,       \* the content of the input field
   currentOutput |-> <<>>,
   preview       |-> PlaceholderHTML,  \* innerHTML of both previews
   copyEnabled   |-> FALSE,      \* the copy button is not disabled
   statusText    |-> "",
   errors        |-> 0,          \* history: the number of showError calls
   typed         |-> 0]

InitApp ==
  /\ inbox = <<>>
  /\ received = <<>>
  /\ outbox = <<>>
  /\ app = AppStart

\* app.js:114-123 and 148-154: worker.init() has returned; the UIController
\* is given modules.worker, which is the WorkerComm whether or not its
\* worker works, and setupErrorHandling sets its onError
initializeUI(a) ==
  [a EXCEPT !.phase = "ui", !.workerComm = TRUE, !.onError = TRUE]

\* WorkerComm.init up to its await (worker-comm.js:21-33), called from
\* initializeModules (app.js:108-110).  new Worker throws or not; when it
\* throws the catch block finds no onError and init returns.
init ==
  /\ app.phase = "worker"
  /\ app.thread = "none"
  /\ ~app.waiting
  /\ \E created \in BOOLEAN :
       app' = IF created
              THEN [app EXCEPT !.worker = TRUE, !.thread = "loading", !.waiting = TRUE]
              ELSE initializeUI(app)
  /\ UNCHANGED <<inbox, received, outbox>>

\* the worker script has run to its end: markdown-worker.js:309-313
workerStart ==
  /\ app # Detached
  /\ app.thread = "loading"
  /\ outbox' = Append(outbox, [type |-> "WORKER_READY", timestamp |-> 0])
  /\ app' = [app EXCEPT !.thread = "loaded"]
  /\ UNCHANGED <<inbox, received>>

\* showError with a call of clearOutput
showError_ClearsOutput(a, message) ==
  [a EXCEPT !.statusText = message, !.errors = @ + 1,
            !.currentOutput = <<>>, !.preview = PlaceholderHTML,
            !.copyEnabled = FALSE]

\* showError: ui-controller.js:523-531
showError(a, message) ==
  [a EXCEPT !.statusText = message, !.errors = @ + 1]

\* handler.reject for every entry of messageQueue, after clearTimeout, and
\* messageQueue.clear(): worker-comm.js:141-146 and 187-192.  The rejected
\* promise is the one processInput awaits: its catch and finally blocks
\* run (ui-controller.js:264-270).
rejectAll(a, message) ==
  LET rejected ==
        [a EXCEPT !.settles = [k \in DOMAIN @ |->
                                 IF k \in a.messageQueue
                                 THEN Append(@[k], "reject") ELSE @[k]],
                  !.timers = @ \ a.messageQueue,
                  !.messageQueue = {}]
  IN IF a.messageQueue = {} THEN rejected
     ELSE showError([rejected EXCEPT !.isProcessing = FALSE], message)

\* an error event of the worker reaches worker.onerror, while the script
\* loads or later: worker-comm.js:138-152, and through onError
\* app.js:256-267 and ui-controller.js:547-549.  showStatus runs before
\* the catch block of a rejected processInput.
handleWorkerError ==
  /\ app # Detached
  /\ app.worker
  /\ app.thread \in {"loading", "loaded"}
  /\ LET a == [app EXCEPT !.thread = IF @ = "loading" THEN "broken" ELSE @]
     IN app' = IF app.onError
               THEN rejectAll([a EXCEPT !.workerComm = FALSE,
                                        !.statusText = "Processing on main thread"],
                              WorkerError)
               ELSE rejectAll(a, WorkerError)
  /\ UNCHANGED <<inbox, received, outbox>>

\* the timer of waitForWorkerReady fires: worker-comm.js:51-53, then the
\* catch block of init (36-42), which finds no onError
initTimeout ==
  /\ app # Detached
  /\ app.waiting
  /\ app' = initializeUI([app EXCEPT !.waiting = FALSE])
  /\ UNCHANGED <<inbox, received, outbox>>

\* handleProcessingResult with updateOutput and enableCopyButton:
\* ui-controller.js:298-310, 336-348, 428-432
handleProcessingResult(a, result) ==
  IF "html" \in DOMAIN result /\ result.html # <<>>
  THEN [a EXCEPT !.currentOutput = result.html,
                 !.preview = result.html,
                 !.copyEnabled = TRUE]
  ELSE IF "error" \in DOMAIN result
  THEN showError(a, result.error)
  ELSE a

\* the next message of the worker reaches the main thread: checkReady
\* (worker-comm.js:55-62) and handleWorkerMessage (111-132), then what
\* awaits the message: init, or processInput from its await on
\* (ui-controller.js:257-270)
handleWorkerMessage ==
  /\ app # Detached
  /\ app.worker
  /\ app.delivered < Len(outbox)
  /\ LET message == outbox[app.delivered + 1]
         a       == [app EXCEPT !.delivered = @ + 1]
     IN app' =
          IF message.type = "WORKER_READY"
          THEN IF app.waiting
               THEN initializeUI([a EXCEPT !.isReady = TRUE, !.waiting = FALSE])
               ELSE [a EXCEPT !.isReady = TRUE]
          ELSE IF message.id \in app.messageQueue
          THEN handleProcessingResult(
                 [a EXCEPT !.messageQueue = @ \ {message.id},
                           !.timers = @ \ {message.id},
                           !.settles[message.id] = Append(@, "resolve"),
                           !.isProcessing = FALSE],
                 message.payload)
          ELSE a
  /\ UNCHANGED <<inbox, received, outbox>>

\* the timer of sendMessage without its reject
sendMessageTimeout_NoReject ==
  /\ app # Detached
  /\ \E id \in app.timers :
       app' = [app EXCEPT !.timers = @ \ {id}]
  /\ UNCHANGED <<inbox, received, outbox>>

\* the timer of sendMessage without its messageQueue.delete
sendMessageTimeout_KeepsEntry ==
  /\ app # Detached
  /\ \E id \in app.timers :
       app' = showError([app EXCEPT !.timers = @ \ {id},
                                    !.settles[id] = Append(@, "reject"),
                                    !.isProcessing = FALSE],
                        WorkerResponseTimeout)
  /\ UNCHANGED <<inbox, received, outbox>>

\* the timer of sendMessage fires: worker-comm.js:84-87, then the catch
\* and finally blocks of processInput (ui-controller.js:264-270)
sendMessageTimeout ==
  /\ app # Detached
  /\ \E id \in app.timers :
       app' = showError([app EXCEPT !.timers = @ \ {id},
                                    !.messageQueue = @ \ {id},
                                    !.settles[id] = Append(@, "reject"),
                                    !.isProcessing = FALSE],
                        WorkerResponseTimeout)
  /\ UNCHANGED <<inbox, received, outbox>>

\* the user changes the content of the input field: handleInput
\* (ui-controller.js:210-223), which arms the timer of debouncedProcess
\* anew (utils.js:20-22) or calls clearOutput (353-358)
handleInput ==
  /\ app # Detached
  /\ app.phase = "ui"
  /\ app.typed < MaxTyped
  /\ \E input \in TypedInputs :
       LET a == [app EXCEPT !.typed = @ + 1, !.currentInput = input]
       IN app' = IF Trim(input) # <<>>
                 THEN [a EXCEPT !.debounced = <<input>>]
                 ELSE [a EXCEPT !.currentOutput = <<>>,
                                !.copyEnabled = FALSE,
                                !.preview = PlaceholderHTML]
  /\ UNCHANGED <<inbox, received, outbox>>

\* the message sendMessage posts: worker-comm.js:98-103
ConvertRequest(id, markdown) ==
  [id      |-> id,
   type    |-> "CONVERT_MARKDOWN",
   payload |-> [markdown |-> JsString(markdown), options |-> UiOptions]]

\* processInput without its test of isProcessing
processInput_NoGuard ==
  /\ app # Detached
  /\ app.debounced # <<>>
  /\ LET markdown == app.debounced[1]
         a        == [app EXCEPT !.debounced = <<>>]
         id       == a.messageId + 1
     IN IF a.workerComm
        THEN IF ~a.worker \/ ~a.isReady
             THEN /\ app' = showError(a, WorkerNotAvailable)
                  /\ inbox' = inbox
             ELSE /\ app' = [a EXCEPT !.isProcessing = TRUE,
                                      !.messageId = id,
                                      !.messageQueue = @ \cup {id},
                                      !.timers = @ \cup {id},
                                      !.settles = Append(@, <<>>)]
                  /\ inbox' = Append(inbox, ConvertRequest(id, markdown))
        ELSE /\ app' = handleProcessingResult(a, [html |-> simpleMarkdownToHtml(markdown)])
             /\ inbox' = inbox
  /\ UNCHANGED <<received, outbox>>

\* the timer of debouncedProcess fires (utils.js:16-19): processInput
\* (ui-controller.js:238-271) with sendMessage (worker-comm.js:75-105) up
\* to its await
processInput ==
  /\ app # Detached
  /\ app.debounced # <<>>
  /\ LET markdown == app.debounced[1]
         a        == [app EXCEPT !.debounced = <<>>]
         id       == a.messageId + 1
     IN IF a.isProcessing
        THEN /\ app' = a
             /\ inbox' = inbox
        ELSE IF a.workerComm
        THEN IF ~a.worker \/ ~a.isReady
             THEN /\ app' = showError(a, WorkerNotAvailable)
                  /\ inbox' = inbox
             ELSE /\ app' = [a EXCEPT !.isProcessing = TRUE,
                                      !.messageId = id,
                                      !.messageQueue = @ \cup {id},
                                      !.timers = @ \cup {id},
                                      !.settles = Append(@, <<>>)]
                  /\ inbox' = Append(inbox, ConvertRequest(id, markdown))
        ELSE /\ app' = handleProcessingResult(a, [html |-> simpleMarkdownToHtml(markdown)])
             /\ inbox' = inbox
  /\ UNCHANGED <<received, outbox>>

NextApp ==
  \/ init
  \/ workerStart
  \/ handleWorkerError
  \/ initTimeout
  \/ handleWorkerMessage
  \/ sendMessageTimeout
  \/ handleInput
  \/ processInput
  \/ onmessage

SpecApp == InitApp /\ [][NextApp]_vars

\* nothing is pending on the main thread or in the worker
Quiescent ==
  /\ app.debounced = <<>>
  /\ ~app.isProcessing
  /\ app.messageQueue = {}
  /\ inbox = <<>>
  /\ app.delivered = Len(outbox)

\* C20: once the set-up has ended and for as long as the worker has not
\* become ready, the last input typed, when it is not blank and its
\* debounce timer has fired, has been converted on the main thread: the
\* output is its simpleMarkdownToHtml and no 'Worker not available' error
\* is shown.
C20_FallbackWithoutWorker ==
  ( /\ app.phase = "ui"
    /\ ~app.isReady
    /\ app.typed > 0
    /\ app.debounced = <<>>
    /\ Trim(app.currentInput) # <<>> )
  => /\ app.statusText # WorkerNotAvailable
     /\ app.currentOutput = simpleMarkdownToHtml(app.currentInput)

\* the characters of h that the user typed and that HTML reads as markup
RawMarkup(h) == { i \in 1..Len(h) : h[i].o = "in" /\ h[i].c \in {"<", ">", "&"} }

\* C21: while the UIController converts on the main thread (workerComm is
\* null), the html written to the previews holds no '<', '>' or '&' taken
\* from the input as it was typed.
C21_FallbackEscapes ==
  (app.phase = "ui" /\ ~app.workerComm) => RawMarkup(app.preview) = {}

\* C22: once nothing is pending any more (no debounce timer, no request,
\* no reply) and no error was shown, the displayed html is the conversion,
\* by the worker or on the main thread, of the content the input field has
\* now, when that content is not blank.
C22_OutputFollowsInput ==
  ( /\ app.phase = "ui"
    /\ app.typed > 0
    /\ Quiescent
    /\ app.errors = 0
    /\ Trim(app.currentInput) # <<>> )
  => app.currentOutput \in { convertMarkdownToHtml(app.currentInput, UiOptions),
                            simpleMarkdownToHtml(app.currentInput) }

(***************************************************************************)
(* WorkerComm with its whole interface: terminate can be called by the     *)
(* owner of the WorkerComm at any time                                     *)
(***************************************************************************)

\* worker-comm.js:185-199; the messages posted to the worker and not yet
\* handled are lost with it
terminate ==
  /\ app # Detached
  /\ app.worker
  /\ app' = rejectAll([app EXCEPT !.worker = FALSE, !.isReady = FALSE,
                                  !.thread = "terminated"],
                      WorkerTerminated)
  /\ inbox' = <<>>
  /\ UNCHANGED <<received, outbox>>

NextComm == NextApp \/ terminate

SpecComm == InitApp /\ [][NextComm]_vars

\* the requests sendMessage has made a promise for, and those of them whose
\* promise has not been settled
Requests == 1..app.messageId

Unsettled == { k \in Requests : app.settles[k] = <<>> }

\* C23: messageQueue holds exactly the ids of the requests whose promise
\* has not settled, the armed timers of sendMessage are exactly those of
\* the entries of messageQueue, and no request is settled twice.
C23_QueueBookkeeping ==
  /\ Len(app.settles) = app.messageId
  /\ app.messageQueue = Unsettled
  /\ app.timers = app.messageQueue
  /\ \A k \in Requests : Len(app.settles[k]) <= 1

\* one request was resolved by its reply and another one was rejected
C23_Witness ==
  /\ \E k \in Requests : app.settles[k] = <<"resolve">>
  /\ \E k \in Requests : app.settles[k] = <<"reject">>
  /\ app.messageQueue = {}
  /\ app.timers = {}

\* the timers of sendMessage fire
SpecCommLive == SpecComm /\ WF_vars(sendMessageTimeout)

\* C24: every request that has an entry in messageQueue is settled at some
\* later time, by exactly one call of resolve or reject, whether or not
\* the worker replies.
C24_EverySendSettles ==
  \A k \in 1..MaxTyped :
    (app # Detached /\ k \in app.messageQueue)
      ~> /\ k \notin app.messageQueue
         /\ k <= Len(app.settles)
         /\ Len(app.settles[k]) = 1

\* a request was rejected by its timer and the reply of the worker to it
\* has arrived afterwards and settled nothing
C24_Witness ==
  \E k \in Requests :
    /\ app.settles[k] = <<"reject">>
    /\ app.statusText = WorkerResponseTimeout
    /\ \E j \in 1..app.delivered :
         /\ outbox[j].type = "CONVERSION_COMPLETE"
         /\ outbox[j].id = k

\* the step is a call of processInput: only it disarms the debounce timer
IsProcessInputStep == app.debounced # <<>> /\ app'.debounced = <<>>

\* C25: at most one request of processInput is pending, isProcessing is
\* true exactly while one is pending, whatever way the earlier ones ended,
\* and a call of processInput made while isProcessing is true posts no
\* message and changes nothing but the debounce timer that made it.
C25_OneConversionInFlight ==
  /\ [](/\ Cardinality(app.messageQueue) <= 1
        /\ app.isProcessing <=> app.messageQueue # {})
  /\ [][ (IsProcessInputStep /\ app.isProcessing)
           => /\ app' = [app EXCEPT !.debounced = <<>>]
              /\ inbox' = inbox ]_vars

\* a request is pending for an earlier content of the input field, and the
\* call of processInput for the content it has now has been made and has
\* returned without a request
C25_Witness ==
  /\ app.isProcessing
  /\ app.messageId = 1
  /\ app.errors = 0
  /\ app.typed = 2
  /\ app.debounced = <<>>
  /\ Trim(app.currentInput) # <<>>
  /\ \E m \in { inbox[j] : j \in 1..Len(inbox) } \cup { received[j] : j \in 1..Len(received) } :
       m.id = 1 /\ m.payload.markdown.chars # app.currentInput

\* C26: a step in which the UIController shows an error (a CONVERSION_ERROR
\* reply, a response timeout, 'Worker not available', a rejection by an
\* error event) leaves currentOutput, the content of the previews and the
\* state of the copy button as they were.
C26_ErrorKeepsOutput ==
  [][ app'.errors > app.errors
        => /\ app'.currentOutput = app.currentOutput
           /\ app'.preview = app.preview
           /\ app'.copyEnabled = app.copyEnabled ]_vars

\* an output is displayed and a later conversion has ended in a timeout
C26_Witness ==
  /\ app.errors > 0
  /\ app.statusText = WorkerResponseTimeout
  /\ app.currentOutput # <<>>
  /\ app.preview = app.currentOutput
  /\ app.copyEnabled

\* C27: whenever the content of the input field is blank and neither a
\* debounce timer nor a conversion is pending, the output is empty and the
\* copy button is disabled.
C27_BlankInputEmptyOutput ==
  ( /\ app # Detached
    /\ Trim(app.currentInput) = <<>>
    /\ app.debounced = <<>>
    /\ ~app.isProcessing
    /\ app.messageQueue = {} )
  => /\ app.currentOutput = <<>>
     /\ ~app.copyEnabled

(***************************************************************************)
(* Utils.debounce (src/js/utils.js:13-25) on its own, with a clock.  A     *)
(* timer set by setTimeout(later, wait) is due wait ticks after the call   *)
(* and runs at its due time or later, unless clearTimeout cancels it.      *)
(***************************************************************************)

\* the wait of the debounced function, in ticks of the clock
Wait == 2

\* the number of calls of the debounced function in one run
MaxCalls == 3

\* the time at which the clock stops
MaxTime == 6

\* the arguments of the calls
CallArgs == {"x", "y"}

\* Utils.debounce(func, wait, immediate) has returned executedFunction:
\* utils.js:13-15
DebounceStart(immediate) ==
  [phase     |-> "debounce",
   immediate |-> immediate,
   now       |-> 0,
   timeout   |-> 0,        \* the handle in the variable timeout; 0 for none
   handles   |-> 0,        \* the handles setTimeout has given out
   armed     |-> {},       \* the timers that are set and have not run
   calls     |-> <<>>,     \* history: the calls of executedFunction
   invoked   |-> <<>>]     \* history: the calls of func

InitDebounce ==
  /\ inbox = <<>>
  /\ received = <<>>
  /\ outbox = <<>>
  /\ app \in { DebounceStart(immediate) : immediate \in BOOLEAN }

\* func.apply(this, args): the call is recorded with its time and with the
\* number of calls of executedFunction made so far
Apply(d, args) ==
  [d EXCEPT !.invoked = Append(@, [at |-> d.now, args |-> args,
                                   after |-> Len(d.calls)])]

\* the debounced function without its clearTimeout
executedFunction_NoClear ==
  /\ app.phase = "debounce"
  /\ Len(app.calls) < MaxCalls
  /\ \E args \in CallArgs :
       LET callNow == app.immediate /\ app.timeout = 0
           handle  == app.handles + 1
           d == [app EXCEPT !.calls = Append(@, [at |-> app.now, args |-> args]),
                            !.armed = @ \cup { [handle |-> handle,
                                                due    |-> app.now + Wait,
                                                args   |-> args] },
                            !.handles = handle,
                            !.timeout = handle]
       IN app' = IF callNow THEN Apply(d, args) ELSE d
  /\ UNCHANGED <<inbox, received, outbox>>

\* utils.js:15-24: a call of the debounced function
executedFunction ==
  /\ app.phase = "debounce"
  /\ Len(app.calls) < MaxCalls
  /\ \E args \in CallArgs :
       LET callNow == app.immediate /\ app.timeout = 0
           handle  == app.handles + 1
           d == [app EXCEPT !.calls = Append(@, [at |-> app.now, args |-> args]),
                            !.armed = { t \in @ : t.handle # app.timeout }
                                        \cup { [handle |-> handle,
                                                due    |-> app.now + Wait,
                                                args   |-> args] },
                            !.handles = handle,
                            !.timeout = handle]
       IN app' = IF callNow THEN Apply(d, args) ELSE d
  /\ UNCHANGED <<inbox, received, outbox>>

\* utils.js:16-19: a timer that is due runs
later ==
  /\ app.phase = "debounce"
  /\ \E t \in app.armed :
       /\ t.due <= app.now
       /\ LET d == [app EXCEPT !.armed = @ \ {t}, !.timeout = 0]
          IN app' = IF app.immediate THEN d ELSE Apply(d, t.args)
  /\ UNCHANGED <<inbox, received, outbox>>

\* one tick of the clock
tick ==
  /\ app.phase = "debounce"
  /\ app.now < MaxTime
  /\ app' = [app EXCEPT !.now = @ + 1]
  /\ UNCHANGED <<inbox, received, outbox>>

NextDebounce == executedFunction \/ later \/ tick

SpecDebounce == InitDebounce /\ [][NextDebounce]_vars

\* C28: with immediate = false, every call of func is made after a call of
\* the debounced function, at least Wait ticks after the most recent one
\* and with its arguments, and no two calls of func follow the same call:
\* calls less than Wait apart end in one call of func, after the last.
C28_DebounceWaits ==
  (app.phase = "debounce" /\ ~app.immediate) =>
    /\ \A v \in 1..Len(app.invoked) :
         LET f == app.invoked[v]
         IN /\ f.after >= 1
            /\ f.at >= app.calls[f.after].at + Wait
            /\ f.args = app.calls[f.after].args
    /\ \A v, w \in 1..Len(app.invoked) :
         app.invoked[v].after = app.invoked[w].after => v = w

\* three calls less than Wait apart with different arguments, then one call
\* of func
C28_Witness ==
  /\ app.phase = "debounce"
  /\ ~app.immediate
  /\ Len(app.calls) = 3
  /\ \A k \in 1..2 : app.calls[k + 1].at - app.calls[k].at < Wait
  /\ app.calls[2].args # app.calls[3].args
  /\ Len(app.invoked) = 1
  /\ app.invoked[1].after = 3
  /\ app.armed = {}

(***************************************************************************)
(* Utils.retry (src/js/utils.js:317-332) on its own.  fn succeeds or       *)
(* fails as it likes; the error of its k-th call is k.                     *)
(***************************************************************************)

\* the largest maxRetries of a run
MaxRetries == 4

\* the delay arguments of a run, in milliseconds
Delays == {1, 1000}

\* the values fn can return
FnResults == {"r", "s"}

RECURSIVE Pow2(_)
Pow2(n) == IF n = 0 THEN 1 ELSE 2 * Pow2(n - 1)

\* Utils.retry(fn, maxRetries, delay) has been called: utils.js:317-320
RetryStart(maxRetries, delay) ==
  [phase      |-> "retry",
   maxRetries |-> maxRetries,
   delay      |-> delay,
   i          |-> 0,
   pc         |-> "call",     \* call, await fn, await delay, returned, thrown
   active     |-> 0,          \* calls of fn that have not ended
   outcomes   |-> <<>>,       \* history: how the calls of fn ended
   waits      |-> <<>>,       \* history: the delays waited
   lastError  |-> 0,          \* 0 for undefined
   result     |-> "",
   thrown     |-> 0]

InitRetry ==
  /\ inbox = <<>>
  /\ received = <<>>
  /\ outbox = <<>>
  /\ app \in { RetryStart(n, d) : n \in 0..MaxRetries, d \in Delays }

\* utils.js:320-322: the loop test and the call of fn
callFn ==
  /\ app.phase = "retry"
  /\ app.pc = "call"
  /\ app' = IF app.i <= app.maxRetries
            THEN [app EXCEPT !.pc = "await fn", !.active = @ + 1]
            ELSE [app EXCEPT !.pc = "thrown", !.thrown = app.lastError]
  /\ UNCHANGED <<inbox, received, outbox>>

\* the catch block without its test of the last round
fnSettles_AlwaysWaits ==
  /\ app.phase = "retry"
  /\ app.pc = "await fn"
  /\ \/ \E r \in FnResults :
          app' = [app EXCEPT !.pc = "returned", !.active = @ - 1,
                             !.result = r,
                             !.outcomes = Append(@, [ok |-> TRUE, value |-> r])]
     \/ LET error == Len(app.outcomes) + 1
            a == [app EXCEPT !.active = @ - 1,
                             !.lastError = error,
                             !.outcomes = Append(@, [ok |-> FALSE, value |-> error])]
        IN app' = [a EXCEPT !.pc = "await delay",
                            !.waits = Append(@, app.delay * Pow2(app.i))]
  /\ UNCHANGED <<inbox, received, outbox>>

\* utils.js:322-330: the promise of fn settles; return, or the catch block
\* up to its await
fnSettles ==
  /\ app.phase = "retry"
  /\ app.pc = "await fn"
  /\ \/ \E r \in FnResults :
          app' = [app EXCEPT !.pc = "returned", !.active = @ - 1,
                             !.result = r,
                             !.outcomes = Append(@, [ok |-> TRUE, value |-> r])]
     \/ LET error == Len(app.outcomes) + 1
            a == [app EXCEPT !.active = @ - 1,
                             !.lastError = error,
                             !.outcomes = Append(@, [ok |-> FALSE, value |-> error])]
        IN app' = IF app.i = app.maxRetries
                  THEN [a EXCEPT !.pc = "thrown", !.thrown = error]
                  ELSE [a EXCEPT !.pc = "await delay",
                                 !.waits = Append(@, app.delay * Pow2(app.i))]
  /\ UNCHANGED <<inbox, received, outbox>>

\* utils.js:329 and 320: Utils.delay resolves and the loop goes on
delayElapsed ==
  /\ app.phase = "retry"
  /\ app.pc = "await delay"
  /\ app' = [app EXCEPT !.i = @ + 1, !.pc = "call"]
  /\ UNCHANGED <<inbox, received, outbox>>

NextRetry == callFn \/ fnSettles \/ delayElapsed

SpecRetry == InitRetry /\ [][NextRetry]_vars

Failed(k) == ~app.outcomes[k].ok

\* C29: retry calls fn at most maxRetries + 1 times and one call at a
\* time; when it returns, the last call is the only one that succeeded and
\* its value is returned; when it throws, all maxRetries + 1 calls failed,
\* the error thrown is that of the last call and only maxRetries delays
\* were waited.
C29_RetryBounded ==
  app.phase = "retry" =>
    LET calls == Len(app.outcomes) + app.active
    IN /\ calls <= app.maxRetries + 1
       /\ app.active <= 1
       /\ \A k \in 1..(Len(app.outcomes) - 1) : Failed(k)
       /\ app.pc = "returned" =>
            /\ app.active = 0
            /\ ~Failed(Len(app.outcomes))
            /\ app.result = app.outcomes[Len(app.outcomes)].value
       /\ app.pc = "thrown" =>
            /\ app.active = 0
            /\ Len(app.outcomes) = app.maxRetries + 1
            /\ \A k \in 1..Len(app.outcomes) : Failed(k)
            /\ app.thrown = app.outcomes[Len(app.outcomes)].value
            /\ Len(app.waits) = app.maxRetries
       /\ (app.pc \notin {"returned", "thrown"} /\ Len(app.outcomes) > 0)
            => Failed(Len(app.outcomes))

\* maxRetries = 2: three calls have failed and retry has thrown the error
\* of the third after two delays
C29_Witness ==
  /\ app.phase = "retry"
  /\ app.maxRetries = 2
  /\ app.pc = "thrown"
  /\ app.thrown = 3
  /\ Len(app.outcomes) = 3
  /\ app.waits = <<app.delay, 2 * app.delay>>

(***************************************************************************)
(* DOMManager's listener tracking (src/js/dom-manager.js:72-102) on its    *)
(* own.  A listener is known by the number of the addEventListener call    *)
(* that added it; every call brings a handler function of its own.         *)
(***************************************************************************)

\* the number of addEventListener calls in one run
MaxListeners == 3

\* the largest reading of Date.now() in one run
MaxClock == 1

\* the elements listeners are added to: two buttons and a div
Elements ==
  { [id |-> 1, tagName |-> "BUTTON"], [id |-> 2, tagName |-> "BUTTON"],
    [id |-> 3, tagName |-> "DIV"] }

EventTypes == {"click", "keydown"}

\* new DOMManager(): dom-manager.js:6-9
DomStart ==
  [phase          |-> "dom",
   now            |-> 0,
   added          |-> 0,       \* the addEventListener calls made
   attached       |-> {},      \* the listeners attached to their elements
   eventListeners |-> <<>>,    \* the Map: a function from keys to listeners
   cleanups       |-> <<>>,    \* for each listener, the key its cleanup deletes
   op             |-> "new"]   \* history: the last operation

InitDom ==
  /\ inbox = <<>>
  /\ received = <<>>
  /\ outbox = <<>>
  /\ app = DomStart

\* Map.prototype.set
MapSet(map, key, value) ==
  [k \in DOMAIN map \cup {key} |-> IF k = key THEN value ELSE map[k]]

\* Map.prototype.delete
MapDelete(map, key) == [k \in DOMAIN map \ {key} |-> map[k]]

\* dom-manager.js:72-91
addEventListener ==
  /\ app.phase = "dom"
  /\ app.added < MaxListeners
  /\ \E element \in Elements, event \in EventTypes :
       LET n   == app.added + 1
           key == <<element.tagName, event, app.now>>
       IN app' = [app EXCEPT !.added = n,
                             !.attached = @ \cup {n},
                             !.eventListeners = MapSet(@, key, n),
                             !.cleanups = Append(@, key),
                             !.op = "add"]
  /\ UNCHANGED <<inbox, received, outbox>>

\* the function addEventListener returned for listener n is called:
\* dom-manager.js:87-90
callCleanup ==
  /\ app.phase = "dom"
  /\ \E n \in 1..app.added :
       app' = [app EXCEPT !.attached = @ \ {n},
                          !.eventListeners = MapDelete(@, app.cleanups[n]),
                          !.op = "cleanup"]
  /\ UNCHANGED <<inbox, received, outbox>>

\* dom-manager.js:96-102, also through cleanup (449-452)
removeAllEventListeners ==
  /\ app.phase = "dom"
  /\ app' = [app EXCEPT !.attached = @ \ { app.eventListeners[k] :
                                            k \in DOMAIN app.eventListeners },
                        !.eventListeners = <<>>,
                        !.op = "removeAll"]
  /\ UNCHANGED <<inbox, received, outbox>>

\* Date.now() moves on
clockAdvances ==
  /\ app.phase = "dom"
  /\ app.now < MaxClock
  /\ app' = [app EXCEPT !.now = @ + 1]
  /\ UNCHANGED <<inbox, received, outbox>>

NextDom == addEventListener \/ callCleanup \/ removeAllEventListeners \/ clockAdvances

SpecDom == InitDom /\ [][NextDom]_vars

\* the listeners the Map has an entry for
Tracked(d) == { d.eventListeners[k] : k \in DOMAIN d.eventListeners }

\* C30: after removeAllEventListeners no listener added through the
\* DOMManager is attached any more, and a call of the cleanup function of
\* one listener takes no other listener out of the Map.
C30_ListenerTracking ==
  /\ []((app.phase = "dom" /\ app.op = "removeAll") => app.attached = {})
  /\ [][ (app.phase = "dom" /\ app'.op = "cleanup" /\ app'.attached # app.attached)
           => Tracked(app) \ Tracked(app') \subseteq app.attached \ app'.attached ]_vars

====
